---- MODULE Spec2Model ----
(***************************************************************************)
(* OPD token allocation engine (hospital_backend).                         *)
(*                                                                         *)
(* The store db.data = {doctors, slots, tokens} is modelled as three       *)
(* sequences in insertion order.  nanoid() ids are modelled as fresh       *)
(* integers.  Times of day 'HH:mm' are modelled as the number HHmm (09:15  *)
(* is 915): zero padded strings of equal length compare like these         *)
(* numbers.  patientName, name and createdAt never influence a decision    *)
(* and are left out of the records.                                        *)
(***************************************************************************)
EXTENDS Integers, Sequences, FiniteSets, TLC

VARIABLES doctors, slots, tokens, last, hung

vars == <<doctors, slots, tokens, last, hung>>

\* ------------------------------------------------------------------ bounds
MaxDoctors == 1
MaxTokens == 4

\* Request inputs (small sets that exercise every branch).
Dates == {"d1"}
StartTimes == {900}
EndTimes == {900, 930, 940}
Durations == {-15, 0, 15}
Capacities == {-1, 0, 1, 2}
RequestSources == {"WALK_IN", "BOGUS"}

\* ------------------------------------------------------------------ config
tokenSources == {"EMERGENCY", "PAID", "FOLLOW_UP", "ONLINE", "WALK_IN"}

priorities ==
  [s \in tokenSources |->
     CASE s = "EMERGENCY" -> 5
       [] s = "PAID" -> 4
       [] s = "FOLLOW_UP" -> 3
       [] s = "ONLINE" -> 2
       [] s = "WALK_IN" -> 1]

\* Faulty variant of getPriorityScore: the EMERGENCY key is not found in the
\* table, so the fallback 0 is returned for it.
getPriorityScoreNoEmergency(source) ==
  IF source \in DOMAIN priorities \ {"EMERGENCY"} THEN priorities[source] ELSE 0

\* config.priorities[source] || 0
getPriorityScore(source) ==
  IF source \in DOMAIN priorities THEN priorities[source] ELSE 0

\* ------------------------------------------------------------------ time
\* dayjs(`${date}T${HH:mm}`): minutes since the start of the day.
ParseTime(hhmm) == (hhmm \div 100) * 60 + (hhmm % 100)

\* dayjs.format('HH:mm') of the instant `minutes` after the start of the day:
\* the day is dropped, so an instant at or after 24:00 wraps.
FormatTime(minutes) == ((minutes % 1440) \div 60) * 100 + (minutes % 60)

\* ------------------------------------------------------------------ sorting
\* Array.prototype.sort is stable: elements are ordered by key and, for equal
\* keys, by their position in the input.  keys[i] is the key of s[i].
StableSortByKeys(s, keys) ==
  LET n == Len(s)
      Rank(i) == Cardinality({j \in 1..n : keys[j] < keys[i]
                                          \/ (keys[j] = keys[i] /\ j < i)}) + 1
  IN [p \in 1..n |-> s[CHOOSE i \in 1..n : Rank(i) = p]]

\* ------------------------------------------------------------------ store reads
\* Faulty variant of getDoctorIndex: an unknown id falls back to the first
\* stored doctor.
getDoctorIndexOrFirst(ds, doctorId) ==
  IF \E i \in 1..Len(ds) : ds[i].id = doctorId
  THEN CHOOSE i \in 1..Len(ds) :
         ds[i].id = doctorId /\ \A j \in 1..(i - 1) : ds[j].id # doctorId
  ELSE IF Len(ds) > 0 THEN 1 ELSE 0

getDoctorIndex(ds, doctorId) ==
  IF \E i \in 1..Len(ds) : ds[i].id = doctorId
  THEN CHOOSE i \in 1..Len(ds) :
         ds[i].id = doctorId /\ \A j \in 1..(i - 1) : ds[j].id # doctorId
  ELSE 0

\* Faulty variant of getSlotsForDoctorDay: the date left out of the filter.
getSlotsForDoctorDayAnyDate(sl, doctorId, date) ==
  LET f == SelectSeq(sl, LAMBDA s : s.doctorId = doctorId)
  IN StableSortByKeys(f, [i \in 1..Len(f) |-> f[i].startTime])

\* Faulty variant of getSlotsForDoctorDay: the doctor left out of the filter.
getSlotsForDoctorDayAnyDoctor(sl, doctorId, date) ==
  LET f == SelectSeq(sl, LAMBDA s : s.date = date)
  IN StableSortByKeys(f, [i \in 1..Len(f) |-> f[i].startTime])

\* Faulty variant of getSlotsForDoctorDay: the comparator is turned around, so
\* the slots come latest first.
getSlotsForDoctorDayDescending(sl, doctorId, date) ==
  LET f == SelectSeq(sl, LAMBDA s : s.doctorId = doctorId /\ s.date = date)
  IN StableSortByKeys(f, [i \in 1..Len(f) |-> 0 - f[i].startTime])

getSlotsForDoctorDay(sl, doctorId, date) ==
  LET f == SelectSeq(sl, LAMBDA s : s.doctorId = doctorId /\ s.date = date)
  IN StableSortByKeys(f, [i \in 1..Len(f) |-> f[i].startTime])

\* Faulty variant of getTokensForSlot: the status test left out of the filter.
getTokensForSlotAnyStatus(tk, slotId) ==
  LET f == SelectSeq(tk, LAMBDA t : t.slotId = slotId)
  IN StableSortByKeys(f, [i \in 1..Len(f) |-> 0 - f[i].priorityScore])

getTokensForSlot(tk, slotId) ==
  LET f == SelectSeq(tk, LAMBDA t : t.slotId = slotId /\ t.status = "SCHEDULED")
  IN StableSortByKeys(f, [i \in 1..Len(f) |-> 0 - f[i].priorityScore])

\* ------------------------------------------------------------------ slot generation
\* The while loop of generateSlotsForDay; current and end in minutes.
RECURSIVE SlotLoop(_, _, _, _, _, _)
SlotLoop(current, end, doctor, date, nextId, acc) ==
  IF ~(current < end) THEN acc
  ELSE LET slotEnd == current + doctor.slotDurationMinutes
       IN SlotLoop(slotEnd, end, doctor, date, nextId + 1,
                   Append(acc, [id |-> nextId,
                                doctorId |-> doctor.id,
                                date |-> date,
                                startTime |-> FormatTime(current),
                                endTime |-> FormatTime(slotEnd),
                                capacity |-> doctor.maxPatientsPerSlot]))

\* The loop never ends when the cursor does not advance towards end.
SlotLoopDiverges(doctor) ==
  /\ ParseTime(doctor.startTime) < ParseTime(doctor.endTime)
  /\ doctor.slotDurationMinutes <= 0

\* Faulty variant of generateSlotsForDay: the test for existing slots left
\* out, so every call appends the day's slots again.
generateSlotsForDayAlways(sl, doctor, date) ==
  sl \o SlotLoop(ParseTime(doctor.startTime), ParseTime(doctor.endTime),
                 doctor, date, Len(sl) + 1, <<>>)

\* The slot store after generateSlotsForDay(doctor, date).
generateSlotsForDay(sl, doctor, date) ==
  LET existing == SelectSeq(sl, LAMBDA s : s.doctorId = doctor.id /\ s.date = date)
  IN IF Len(existing) > 0 THEN sl
     ELSE sl \o SlotLoop(ParseTime(doctor.startTime), ParseTime(doctor.endTime),
                         doctor, date, Len(sl) + 1, <<>>)

\* Faulty variant of generateSlotsForDayReturn: the slots are built anew
\* even when the day already has slots.
generateSlotsForDayReturnFresh(sl, doctor, date) ==
  SlotLoop(ParseTime(doctor.startTime), ParseTime(doctor.endTime),
           doctor, date, Len(sl) + 1, <<>>)

\* The value generateSlotsForDay(doctor, date) returns: `existing` (in store
\* order) when the day has slots, the slots just built otherwise.
generateSlotsForDayReturn(sl, doctor, date) ==
  LET existing == SelectSeq(sl, LAMBDA s : s.doctorId = doctor.id /\ s.date = date)
  IN IF Len(existing) > 0 THEN existing
     ELSE SlotLoop(ParseTime(doctor.startTime), ParseTime(doctor.endTime),
                   doctor, date, Len(sl) + 1, <<>>)

\* ------------------------------------------------------------------ allocation
\* Faulty variant of HasRoom: the comparison off by one (<= for <).
HasRoomOffByOne(scheduled, slot) == Len(scheduled) <= slot.capacity

\* scheduled.length < slot.capacity
HasRoom(scheduled, slot) == Len(scheduled) < slot.capacity

\* Faulty variant of FirstFree: the last slot with room instead of the first.
FirstFreeLast(sorted, tk, from) ==
  LET free == {i \in from..Len(sorted) :
                 HasRoom(getTokensForSlot(tk, sorted[i].id), sorted[i])}
  IN IF free = {} THEN 0 ELSE CHOOSE i \in free : \A j \in free : j <= i

\* Index of the first slot of sorted, at or after from, that has room; 0 if none.
RECURSIVE FirstFree(_, _, _)
FirstFree(sorted, tk, from) ==
  IF from > Len(sorted) THEN 0
  ELSE IF HasRoom(getTokensForSlot(tk, sorted[from].id), sorted[from]) THEN from
  ELSE FirstFree(sorted, tk, from + 1)

\* createTokenInSlot: the token store with the new token pushed.
createTokenInSlot(tk, slot, doctorId, date, normalizedSource, priorityScore) ==
  Append(tk, [id |-> Len(tk) + 1,
              doctorId |-> doctorId,
              slotId |-> slot.id,
              date |-> date,
              source |-> normalizedSource,
              priorityScore |-> priorityScore,
              status |-> "SCHEDULED"])

\* lowest.slotId = laterSlot.id, candidate.slotId = freedSlotId: the sorted
\* arrays hold references to the objects of db.data.tokens.
MoveToken(tk, tokenId, slotId) ==
  [i \in 1..Len(tk) |->
     IF tk[i].id = tokenId THEN [tk[i] EXCEPT !.slotId = slotId] ELSE tk[i]]

\* Faulty variant of CannotBump: the comparison of the priorities left out.
CannotBumpEmptyOnly(scheduled, priorityScore) == Len(scheduled) = 0

\* const lowest = scheduled[scheduled.length - 1];
\* if (!lowest || lowest.priorityScore >= priorityScore) continue;
CannotBump(scheduled, priorityScore) ==
  \/ Len(scheduled) = 0
  \/ scheduled[Len(scheduled)].priorityScore >= priorityScore

\* The emergency path, from slot index i on.  Result: the token store and the
\* slot (index into sorted) that receives the emergency token, 0 for null.
RECURSIVE EmergencyPass(_, _, _, _)
EmergencyPass(i, sorted, tk, priorityScore) ==
  IF i > Len(sorted) THEN [tokens |-> tk, into |-> 0]
  ELSE LET slot == sorted[i]
           scheduled == getTokensForSlot(tk, slot.id)
       IN IF HasRoom(scheduled, slot) THEN [tokens |-> tk, into |-> i]
          ELSE IF CannotBump(scheduled, priorityScore)
               THEN EmergencyPass(i + 1, sorted, tk, priorityScore)
          ELSE LET j == FirstFree(sorted, tk, i + 1)
               IN IF j # 0
                  THEN [tokens |-> MoveToken(tk, scheduled[Len(scheduled)].id,
                                             sorted[j].id),
                        into |-> i]
                  ELSE EmergencyPass(i + 1, sorted, tk, priorityScore)

Outcome(sl, tk, ret, tokenId) ==
  [slots |-> sl, tokens |-> tk, ret |-> ret, tokenId |-> tokenId]

\* allocateToken({doctorId, date, source, patientName, emergency}).
\* ret: "token" (the new token, id tokenId), "null", or the error thrown;
\* "diverges" when the call never returns.
allocateToken(ds, sl, tk, doctorId, date, source, emergency) ==
  LET normalizedSource == IF emergency THEN "EMERGENCY" ELSE source
      d == getDoctorIndex(ds, doctorId)
  IN IF normalizedSource \notin tokenSources
     THEN Outcome(sl, tk, "Invalid token source", 0)
     ELSE IF d = 0 THEN Outcome(sl, tk, "Doctor not found", 0)
     ELSE IF Len(SelectSeq(sl, LAMBDA s : s.doctorId = doctorId /\ s.date = date)) = 0
             /\ SlotLoopDiverges(ds[d])
     THEN Outcome(sl, tk, "diverges", 0)
     ELSE
       LET sl2 == generateSlotsForDay(sl, ds[d], date)
           sorted == getSlotsForDoctorDay(sl2, doctorId, date)
           priorityScore == getPriorityScore(normalizedSource)
           first == FirstFree(sorted, tk, 1)
           create(tk2, i) ==
             Outcome(sl2,
                     createTokenInSlot(tk2, sorted[i], doctorId, date,
                                       normalizedSource, priorityScore),
                     "token", Len(tk2) + 1)
       IN IF first # 0 THEN create(tk, first)
          ELSE IF ~emergency THEN Outcome(sl2, tk, "null", 0)
          ELSE LET e == EmergencyPass(1, sorted, tk, priorityScore)
               IN IF e.into # 0 THEN create(e.tokens, e.into)
                  ELSE Outcome(sl2, tk, "null", 0)

\* ------------------------------------------------------------------ rebalancing
\* slots.findIndex((s) => s.id === freedSlotId), 1-based; 0 for -1.
FindSlotIndex(sorted, slotId) ==
  IF \E i \in 1..Len(sorted) : sorted[i].id = slotId
  THEN CHOOSE i \in 1..Len(sorted) :
         sorted[i].id = slotId /\ \A j \in 1..(i - 1) : sorted[j].id # slotId
  ELSE 0

\* Faulty variant of PickCandidate: the last element (the lowest priority) for the first.
PickCandidateLowest(laterTokens) == laterTokens[Len(laterTokens)]

\* const candidate = laterTokens[0];
PickCandidate(laterTokens) == laterTokens[1]

RECURSIVE RebalanceLoop(_, _, _, _)
RebalanceLoop(i, sorted, tk, freedSlotId) ==
  IF i > Len(sorted) THEN tk
  ELSE LET laterTokens == getTokensForSlot(tk, sorted[i].id)
       IN IF Len(laterTokens) = 0 THEN RebalanceLoop(i + 1, sorted, tk, freedSlotId)
          ELSE MoveToken(tk, PickCandidate(laterTokens).id, freedSlotId)

\* Faulty variant of rebalanceAfterFreeSlot: the scan starts at the first slot
\* of the day instead of the slot after the freed one.
rebalanceAfterFreeSlotFromStart(sl, tk, doctorId, date, freedSlotId) ==
  LET sorted == getSlotsForDoctorDay(sl, doctorId, date)
      freedIndex == FindSlotIndex(sorted, freedSlotId)
  IN IF freedIndex = 0 THEN tk
     ELSE RebalanceLoop(1, sorted, tk, freedSlotId)

\* The token store after rebalanceAfterFreeSlot(doctorId, date, freedSlotId).
rebalanceAfterFreeSlot(sl, tk, doctorId, date, freedSlotId) ==
  LET sorted == getSlotsForDoctorDay(sl, doctorId, date)
      freedIndex == FindSlotIndex(sorted, freedSlotId)
  IN IF freedIndex = 0 THEN tk
     ELSE RebalanceLoop(freedIndex + 1, sorted, tk, freedSlotId)

\* db.data.tokens.find((t) => t.id === tokenId), 1-based; 0 for undefined.
FindTokenIndex(tk, tokenId) ==
  IF \E i \in 1..Len(tk) : tk[i].id = tokenId
  THEN CHOOSE i \in 1..Len(tk) :
         tk[i].id = tokenId /\ \A j \in 1..(i - 1) : tk[j].id # tokenId
  ELSE 0

\* Faulty variant of NotCancellable: the status test left out.
NotCancellableMissingOnly(tk, k) == k = 0

\* if (!token || token.status !== 'SCHEDULED') return null;
NotCancellable(tk, k) == k = 0 \/ tk[k].status # "SCHEDULED"

\* cancelToken(tokenId): the token store and "token" or "null".
cancelToken(sl, tk, tokenId) ==
  LET k == FindTokenIndex(tk, tokenId)
  IN IF NotCancellable(tk, k) THEN [tokens |-> tk, ret |-> "null"]
     ELSE LET tk2 == [tk EXCEPT ![k].status = "CANCELLED"]
          IN [tokens |-> rebalanceAfterFreeSlot(sl, tk2, tk2[k].doctorId,
                                                tk2[k].date, tk2[k].slotId),
              ret |-> "token"]

\* Faulty variant of markNoShow: the call of rebalanceAfterFreeSlot left out.
markNoShowWithoutRebalance(sl, tk, tokenId) ==
  LET k == FindTokenIndex(tk, tokenId)
  IN IF NotCancellable(tk, k) THEN [tokens |-> tk, ret |-> "null"]
     ELSE [tokens |-> [tk EXCEPT ![k].status = "NO_SHOW"], ret |-> "token"]

\* markNoShow(tokenId): the token store and "token" or "null".
markNoShow(sl, tk, tokenId) ==
  LET k == FindTokenIndex(tk, tokenId)
  IN IF NotCancellable(tk, k) THEN [tokens |-> tk, ret |-> "null"]
     ELSE LET tk2 == [tk EXCEPT ![k].status = "NO_SHOW"]
          IN [tokens |-> rebalanceAfterFreeSlot(sl, tk2, tk2[k].doctorId,
                                                tk2[k].date, tk2[k].slotId),
              ret |-> "token"]

\* ------------------------------------------------------------------ host
\* !x for the numbers of a request body.
Falsy(x) == x = 0

\* The id of the token whose slotId differs between the token stores before
\* and after a call; 0 when no token was moved.
Moved(before, after) ==
  LET changed == {i \in 1..Len(before) : after[i].slotId # before[i].slotId}
  IN IF changed = {} THEN 0 ELSE before[CHOOSE i \in changed : TRUE].id

\* The record of the last call: the operation, its result, the token it
\* names (the cancelled token, the created token; 0 for none), the doctor and
\* date of an allocate request, whether it was an emergency request, and the
\* token it moved.
Call(op, ret, id, doctorId, date, emergency, moved) ==
  [op |-> op, ret |-> ret, id |-> id, doctorId |-> doctorId, date |-> date,
   emergency |-> emergency, moved |-> moved]

\* ------------------------------------------------------------------ actions
Init ==
  /\ doctors = <<>>
  /\ slots = <<>>
  /\ tokens = <<>>
  /\ last = Call("init", "", 0, 0, "", FALSE, 0)
  /\ hung = FALSE

\* POST /api/doctors
CreateDoctor(startTime, endTime, slotDurationMinutes, maxPatientsPerSlot) ==
  /\ ~hung
  /\ Len(doctors) < MaxDoctors
  /\ IF Falsy(slotDurationMinutes) \/ Falsy(maxPatientsPerSlot)
     THEN /\ doctors' = doctors
          /\ last' = Call("createDoctor", "400", 0, 0, "", FALSE, 0)
     ELSE /\ doctors' = Append(doctors,
                               [id |-> Len(doctors) + 1,
                                startTime |-> startTime,
                                endTime |-> endTime,
                                slotDurationMinutes |-> slotDurationMinutes,
                                maxPatientsPerSlot |-> maxPatientsPerSlot])
          /\ last' = Call("createDoctor", "201", 0, 0, "", FALSE, 0)
  /\ UNCHANGED <<slots, tokens, hung>>

\* allocateToken called by POST /api/tokens/allocate
Allocate(doctorId, date, source, emergency) ==
  /\ ~hung
  /\ Len(tokens) < MaxTokens
  /\ LET r == allocateToken(doctors, slots, tokens, doctorId, date, source, emergency)
     IN /\ slots' = r.slots
        /\ tokens' = r.tokens
        /\ hung' = (r.ret = "diverges")
        /\ last' = Call("allocate", r.ret, r.tokenId, doctorId, date, emergency,
                      Moved(tokens, r.tokens))
  /\ UNCHANGED doctors

\* cancelToken called by POST /api/tokens/:id/cancel
Cancel(tokenId) ==
  /\ ~hung
  /\ LET r == cancelToken(slots, tokens, tokenId)
     IN /\ tokens' = r.tokens
        /\ last' = Call("cancel", r.ret, tokenId, 0, "", FALSE,
                      Moved(tokens, r.tokens))
  /\ UNCHANGED <<doctors, slots, hung>>

\* markNoShow called by POST /api/tokens/:id/no-show
NoShow(tokenId) ==
  /\ ~hung
  /\ LET r == markNoShow(slots, tokens, tokenId)
     IN /\ tokens' = r.tokens
        /\ last' = Call("noShow", r.ret, tokenId, 0, "", FALSE,
                      Moved(tokens, r.tokens))
  /\ UNCHANGED <<doctors, slots, hung>>

Next ==
  \/ \E s \in StartTimes, e \in EndTimes, dur \in Durations, cap \in Capacities :
       CreateDoctor(s, e, dur, cap)
  \/ \E d \in 1..(MaxDoctors + 1), date \in Dates, src \in RequestSources,
        em \in BOOLEAN :
       Allocate(d, date, src, em)
  \/ \E t \in 1..MaxTokens : Cancel(t)
  \/ \E t \in 1..MaxTokens : NoShow(t)

Spec == Init /\ [][Next]_vars

\* ------------------------------------------------------------------ schedule
\* getSchedule(doctorId, date): one view per slot of the day.
getSchedule(sl, tk, doctorId, date) ==
  LET sorted == getSlotsForDoctorDay(sl, doctorId, date)
  IN [i \in 1..Len(sorted) |->
        LET scheduled == getTokensForSlot(tk, sorted[i].id)
        IN [slotId |-> sorted[i].id,
            startTime |-> sorted[i].startTime,
            endTime |-> sorted[i].endTime,
            capacity |-> sorted[i].capacity,
            booked |-> Len(scheduled),
            tokens |-> [j \in 1..Len(scheduled) |->
                          [id |-> scheduled[j].id,
                           source |-> scheduled[j].source,
                           priorityScore |-> scheduled[j].priorityScore,
                           status |-> scheduled[j].status]]]]

\* GET /api/doctors/:id/schedule?date=...: 404 for an unknown doctor, else
\* the schedule; nothing is written.
Schedule(doctorId, date) ==
  /\ ~hung
  /\ last' = Call("schedule",
                  IF getDoctorIndex(doctors, doctorId) = 0 THEN "404" ELSE "200",
                  0, doctorId, date, FALSE, 0)
  /\ UNCHANGED <<doctors, slots, tokens, hung>>

ReadNext ==
  \/ Next
  \/ \E d \in 1..(MaxDoctors + 1), date \in Dates : Schedule(d, date)

ReadSpec == Init /\ [][ReadNext]_vars

\* ------------------------------------------------------------------ slot generation on its own
\* generateSlotsForDay is exported: a call of it for a stored doctor.
GenerateSlots(d, date) ==
  /\ ~hung
  /\ d \in 1..Len(doctors)
  /\ LET diverges ==
           /\ Len(SelectSeq(slots, LAMBDA s : s.doctorId = doctors[d].id
                                              /\ s.date = date)) = 0
           /\ SlotLoopDiverges(doctors[d])
     IN /\ slots' = IF diverges THEN slots
                    ELSE generateSlotsForDay(slots, doctors[d], date)
        /\ hung' = diverges
        /\ last' = Call("generateSlots", IF diverges THEN "diverges" ELSE "slots",
                        0, doctors[d].id, date, FALSE, 0)
  /\ UNCHANGED <<doctors, tokens>>

\* Doctors for the checks of slot generation: working hours that the
\* duration divides and does not divide, early and close to midnight.
GenStartTimes == {900, 2330}
GenWindows == {0, 20, 29}
GenDurations == {7, 10, 15}
GenCapacities == {1, 3}
GenDates == {"d1", "d2"}

GenNext ==
  \/ \E s \in GenStartTimes, w \in GenWindows, dur \in GenDurations,
        cap \in GenCapacities :
       CreateDoctor(s, FormatTime(ParseTime(s) + w), dur, cap)
  \/ \E d \in 1..MaxDoctors, date \in GenDates : GenerateSlots(d, date)

GenSpec == Init /\ [][GenNext]_vars

\* ------------------------------------------------------------------ host answers
\* Faulty variant of AllocateStatus: a null result answered as a bad request.
AllocateStatusNullAsBadRequest(ret) ==
  CASE ret = "token" -> "201"
    [] OTHER -> "400"

\* The answer of POST /api/tokens/allocate to the outcome of allocateToken:
\* 409 for null, 201 for a token, 400 for an error caught.
AllocateStatus(ret) ==
  CASE ret = "null" -> "409"
    [] ret = "token" -> "201"
    [] OTHER -> "400"

\* The answer of the cancel and no-show routes: 404 for null, else 200.
LifecycleStatus(ret) == IF ret = "null" THEN "404" ELSE "200"

\* The record of the last request with the answer of the host: the request
\* fields, the outcome of the core call ("none" when the core was not
\* called), the status answered ("" when no answer is sent) and whether
\* db.write() was called.
HostCall(op, ret, id, doctorId, date, patientName, source, emergency, moved, status, written) ==
  [op |-> op, ret |-> ret, id |-> id, doctorId |-> doctorId, date |-> date,
   patientName |-> patientName, source |-> source, emergency |-> emergency,
   moved |-> moved, status |-> status, written |-> written]

\* Tokens created in the runs that look at the answers of the host.
HostMaxTokens == 3

\* POST /api/tokens/allocate; doctorId 0, date "" and patientName "" stand
\* for a missing field.
HostAllocate(doctorId, date, patientName, source, emergency) ==
  /\ ~hung
  /\ Len(tokens) < HostMaxTokens
  /\ IF doctorId = 0 \/ date = "" \/ patientName = ""
     THEN /\ last' = HostCall("allocate", "none", 0, doctorId, date, patientName,
                              source, emergency, 0, "400", FALSE)
          /\ UNCHANGED <<slots, tokens, hung>>
     ELSE LET r == allocateToken(doctors, slots, tokens, doctorId, date,
                                 source, emergency)
          IN /\ slots' = r.slots
             /\ tokens' = r.tokens
             /\ hung' = (r.ret = "diverges")
             /\ last' = HostCall("allocate", r.ret, r.tokenId, doctorId, date,
                                 patientName, source, emergency,
                                 Moved(tokens, r.tokens),
                                 IF r.ret = "diverges" THEN ""
                                 ELSE AllocateStatus(r.ret),
                                 r.ret = "token")
  /\ UNCHANGED doctors

\* POST /api/tokens/:id/cancel
HostCancel(tokenId) ==
  /\ ~hung
  /\ LET r == cancelToken(slots, tokens, tokenId)
     IN /\ tokens' = r.tokens
        /\ last' = HostCall("cancel", r.ret, tokenId, 0, "", "", "", FALSE,
                            Moved(tokens, r.tokens), LifecycleStatus(r.ret),
                            r.ret # "null")
  /\ UNCHANGED <<doctors, slots, hung>>

\* POST /api/tokens/:id/no-show
HostNoShow(tokenId) ==
  /\ ~hung
  /\ LET r == markNoShow(slots, tokens, tokenId)
     IN /\ tokens' = r.tokens
        /\ last' = HostCall("noShow", r.ret, tokenId, 0, "", "", "", FALSE,
                            Moved(tokens, r.tokens), LifecycleStatus(r.ret),
                            r.ret # "null")
  /\ UNCHANGED <<doctors, slots, hung>>

\* Requests with and without their required fields.
HostDates == {"", "d1"}
HostPatientNames == {"", "p1"}
HostCapacities == {-1, 1, 2}
HostDurations == {-15, 15}

HostNext ==
  \/ \E s \in StartTimes, e \in EndTimes, dur \in HostDurations,
        cap \in HostCapacities :
       CreateDoctor(s, e, dur, cap)
  \/ \E d \in 0..(MaxDoctors + 1), date \in HostDates,
        name \in HostPatientNames, src \in RequestSources, em \in BOOLEAN :
       HostAllocate(d, date, name, src, em)
  \/ \E t \in 1..(HostMaxTokens + 1) : HostCancel(t)
  \/ \E t \in 1..(HostMaxTokens + 1) : HostNoShow(t)

HostSpec == Init /\ [][HostNext]_vars

\* ------------------------------------------------------------------ several doctors and days
\* The store after two doctors have been created: the same working hours,
\* capacity 1 and capacity 2.
MultiMaxTokens == 3
MultiDates == {"d1", "d2"}

MultiInit ==
  /\ doctors = <<[id |-> 1, startTime |-> 900, endTime |-> 930,
                  slotDurationMinutes |-> 15, maxPatientsPerSlot |-> 1],
                 [id |-> 2, startTime |-> 900, endTime |-> 930,
                  slotDurationMinutes |-> 15, maxPatientsPerSlot |-> 2]>>
  /\ slots = <<>>
  /\ tokens = <<>>
  /\ last = Call("createDoctor", "201", 0, 0, "", FALSE, 0)
  /\ hung = FALSE

\* allocateToken for one of the doctors and days.
MultiAllocate(doctorId, date, emergency) ==
  /\ Len(tokens) < MultiMaxTokens
  /\ Allocate(doctorId, date, "WALK_IN", emergency)

MultiNext ==
  \/ \E d \in 1..2, date \in MultiDates, em \in BOOLEAN :
       MultiAllocate(d, date, em)
  \/ \E t \in 1..MultiMaxTokens : Cancel(t)
  \/ \E t \in 1..MultiMaxTokens : NoShow(t)

MultiSpec == MultiInit /\ [][MultiNext]_vars

\* ------------------------------------------------------------------ vocabulary of the claims
\* Indices (into tk) of the tokens that occupy capacity in a slot.
Occupants(tk, slotId) ==
  {i \in 1..Len(tk) : tk[i].slotId = slotId /\ tk[i].status = "SCHEDULED"}

\* Indices (into sl) of the slots of a doctor and date.
DaySlots(sl, doctorId, date) ==
  {i \in 1..Len(sl) : sl[i].doctorId = doctorId /\ sl[i].date = date}

\* Slots of the day with fewer SCHEDULED tokens than their capacity.
FreeSlots(sl, tk, doctorId, date) ==
  {i \in DaySlots(sl, doctorId, date) :
     Cardinality(Occupants(tk, sl[i].id)) < sl[i].capacity}

\* The chronologically first slot among a non-empty set of slot indices.
Earliest(sl, S) == CHOOSE i \in S : \A j \in S : sl[i].startTime <= sl[j].startTime

\* Slots of the same doctor and date that start strictly after slot i.
LaterSlots(sl, i) ==
  {j \in DaySlots(sl, sl[i].doctorId, sl[i].date) : sl[j].startTime > sl[i].startTime}

\* Index (into sl) of the slot with the given id.
SlotOf(sl, slotId) == CHOOSE i \in 1..Len(sl) : sl[i].id = slotId

ValidRequest(source, emergency) == emergency \/ source \in tokenSources

\* ------------------------------------------------------------------ C1
\* C1: in every reachable state, for every slot, the number of SCHEDULED
\* tokens whose slotId is that slot is at most the slot's capacity.
CapacityInvariant ==
  \A i \in 1..Len(slots) :
    Cardinality(Occupants(tokens, slots[i].id)) <= slots[i].capacity

\* ------------------------------------------------------------------ C2
\* C2: whenever a slot of the (doctor, date) has fewer SCHEDULED tokens than
\* its capacity, allocate (emergency or not, with a valid effective source)
\* returns a token, pushes exactly one new SCHEDULED token placed in the
\* chronologically first such slot, and changes no slot and no other token.
EarliestFit ==
  \A d \in 1..(MaxDoctors + 1), date \in Dates, src \in RequestSources,
     em \in BOOLEAN :
    LET free == FreeSlots(slots, tokens, d, date)
        r == allocateToken(doctors, slots, tokens, d, date, src, em)
    IN (free # {} /\ ValidRequest(src, em)) =>
         /\ r.ret = "token"
         /\ r.slots = slots
         /\ Len(r.tokens) = Len(tokens) + 1
         /\ SubSeq(r.tokens, 1, Len(tokens)) = tokens
         /\ r.tokens[Len(r.tokens)].id = r.tokenId
         /\ r.tokens[Len(r.tokens)].status = "SCHEDULED"
         /\ r.tokens[Len(r.tokens)].slotId = slots[Earliest(slots, free)].id

\* An allocation has just placed a token in a slot that is not the first of
\* its day: the earlier slots were full and were passed over.
EarliestFitWitness ==
  /\ last.op = "allocate"
  /\ last.ret = "token"
  /\ \E i \in 1..Len(slots) :
       /\ slots[i].id = tokens[last.id].slotId
       /\ \E j \in DaySlots(slots, slots[i].doctorId, slots[i].date) :
            slots[j].startTime < slots[i].startTime

AllocateNeverMovesAToken ==
  [][last'.op = "allocate" => SubSeq(tokens', 1, Len(tokens)) = tokens]_vars

\* C4: the emergency bump happens: an emergency request made when the
\* earliest-fit pass finds every slot of the day full, while a slot that is
\* not the last one holds a SCHEDULED token of lower priority, returns a token
\* after moving one lower-priority token to a later slot and takes the slot
\* that token vacated.
EmergencyBumpHappens ==
  [][(last'.op = "allocate" /\ last'.emergency) =>
       LET day == DaySlots(slots, last'.doctorId, last'.date)
           bumpable == {t \in 1..Len(tokens) :
                          /\ tokens[t].status = "SCHEDULED"
                          /\ tokens[t].priorityScore < getPriorityScore("EMERGENCY")
                          /\ \E k \in day : /\ slots[k].id = tokens[t].slotId
                                            /\ LaterSlots(slots, k) # {}}
       IN (/\ day # {}
           /\ FreeSlots(slots, tokens, last'.doctorId, last'.date) = {}
           /\ bumpable # {}) =>
            /\ last'.ret = "token"
            /\ \E t \in bumpable :
                 /\ last'.moved = tokens[t].id
                 /\ SlotOf(slots, tokens'[t].slotId)
                      \in LaterSlots(slots, SlotOf(slots, tokens[t].slotId))
                 /\ tokens'[last'.id].slotId = tokens[t].slotId
                 /\ \A u \in 1..Len(tokens) : u # t => tokens'[u] = tokens[u]]_vars

\* ------------------------------------------------------------------ C5
\* C5: an allocate call that ends in NoCapacity (null), InvalidSource or
\* DoctorNotFound leaves the doctors, slots and tokens collections as they
\* were before the call.
FailedAllocationChangesNothing ==
  [][(/\ last'.op = "allocate"
      /\ last'.ret \in {"null", "Invalid token source", "Doctor not found"}) =>
       (doctors' = doctors /\ slots' = slots /\ tokens' = tokens)]_vars

\* ------------------------------------------------------------------ C6
\* Index (into tk) of the token with the given id.
TokenOf(tk, tokenId) == CHOOSE i \in 1..Len(tk) : tk[i].id = tokenId

RebalancePullsGlobalBest ==
  [][(last'.op \in {"cancel", "noShow"} /\ last'.moved # 0) =>
       LET k == TokenOf(tokens, last'.id)
           s == SlotOf(slots, tokens[k].slotId)
           m == TokenOf(tokens, last'.moved)
       IN \A j \in LaterSlots(slots, s) :
            \A u \in Occupants(tokens, slots[j].id) :
              tokens[u].priorityScore <= tokens[m].priorityScore]_vars

\* ------------------------------------------------------------------ C8
\* C8: in every reachable state and for every token id, markNoShow and cancel
\* return the same outcome and produce the same token store, except that the
\* target token's status is NO_SHOW instead of CANCELLED.
NoShowEqualsCancel ==
  \A t \in 1..(MaxTokens + 1) :
    LET c == cancelToken(slots, tokens, t)
        n == markNoShow(slots, tokens, t)
    IN /\ n.ret = c.ret
       /\ Len(n.tokens) = Len(c.tokens)
       /\ \A i \in 1..Len(c.tokens) :
            n.tokens[i] = IF c.ret = "token" /\ c.tokens[i].id = t
                          THEN [c.tokens[i] EXCEPT !.status = "NO_SHOW"]
                          ELSE c.tokens[i]

\* A no-show has just pulled a later token into the freed slot.
NoShowEqualsCancelWitness ==
  last.op = "noShow" /\ last.ret = "token" /\ last.moved # 0

\* ------------------------------------------------------------------ C9
\* C9: cancel or markNoShow on a token id that does not exist, or on a token
\* that is already CANCELLED or NO_SHOW, returns null, moves no token and
\* leaves every token and slot unchanged.
TerminalStatusImmutable ==
  [][(/\ last'.op \in {"cancel", "noShow"}
      /\ \A i \in 1..Len(tokens) :
           tokens[i].id = last'.id => tokens[i].status \in {"CANCELLED", "NO_SHOW"}) =>
       (/\ last'.ret = "null"
        /\ last'.moved = 0
        /\ tokens' = tokens
        /\ slots' = slots)]_vars

\* A cancel or no-show has just been refused for a token that is already
\* CANCELLED or NO_SHOW, while a later slot holds a SCHEDULED token that a
\* rebalance would have pulled.
TerminalStatusImmutableWitness ==
  /\ last.op \in {"cancel", "noShow"}
  /\ last.ret = "null"
  /\ \E i \in 1..Len(tokens) :
       /\ tokens[i].id = last.id
       /\ tokens[i].status \in {"CANCELLED", "NO_SHOW"}
       /\ \E j \in LaterSlots(slots, SlotOf(slots, tokens[i].slotId)) :
            Occupants(tokens, slots[j].id) # {}

\* ------------------------------------------------------------------ C10
\* C10: for every doctor with startTime < endTime and slotDurationMinutes > 0,
\* every generated slot ends at or before the doctor's endTime and the number
\* of slots of a day is floor((endTime - startTime) / slotDurationMinutes).
\* (Stated for the doctors with a positive capacity, which is all the claim
\* needs to be refuted.)
SlotsStayWithinWorkingHours ==
  \A d \in 1..Len(doctors), date \in Dates :
    LET day == DaySlots(slots, doctors[d].id, date)
        window == ParseTime(doctors[d].endTime) - ParseTime(doctors[d].startTime)
    IN (/\ window > 0
        /\ doctors[d].slotDurationMinutes > 0
        /\ doctors[d].maxPatientsPerSlot > 0
        /\ day # {}) =>
         /\ Cardinality(day) = window \div doctors[d].slotDurationMinutes
         /\ \A i \in day : slots[i].endTime <= doctors[d].endTime

\* ------------------------------------------------------------------ C11
\* C11: generateSlotsForDay called twice for the same doctor and date returns
\* the same slots (same ids, same count) and the second call adds nothing to
\* the slot store; whatever happened since a day's slots were generated, a
\* call returns exactly the slots stored for that day and leaves the store as
\* it is.
IdempotentSlotGeneration ==
  \A d \in 1..Len(doctors), date \in Dates :
    LET day == SelectSeq(slots, LAMBDA s : s.doctorId = doctors[d].id
                                           /\ s.date = date)
        s1 == generateSlotsForDay(slots, doctors[d], date)
        r1 == generateSlotsForDayReturn(slots, doctors[d], date)
        s2 == generateSlotsForDay(s1, doctors[d], date)
        r2 == generateSlotsForDayReturn(s1, doctors[d], date)
    IN (Len(day) > 0 \/ ~SlotLoopDiverges(doctors[d])) =>
         /\ s2 = s1
         /\ r2 = r1
         /\ Len(day) > 0 => (s1 = slots /\ r1 = day)

\* A day has slots, and tokens were allocated and cancelled since they were
\* generated.
IdempotentSlotGenerationWitness ==
  /\ Len(slots) > 1
  /\ \E i \in 1..Len(tokens) : tokens[i].status = "CANCELLED"
  /\ \E i \in 1..Len(tokens) : tokens[i].status = "SCHEDULED"

\* ------------------------------------------------------------------ C12
\* Source values a request can carry: the five known ones, an unknown one,
\* and none at all.
AnySources == tokenSources \cup {"BOGUS", "undefined"}

FixedScore(source) ==
  CASE source = "EMERGENCY" -> 5
    [] source = "PAID" -> 4
    [] source = "FOLLOW_UP" -> 3
    [] source = "ONLINE" -> 2
    [] source = "WALK_IN" -> 1
    [] OTHER -> 0

\* C12: every stored token has a source among the five known values and the
\* priorityScore of the fixed table for that source (5, 4, 3, 2, 1, never
\* 0); a token allocate stores for any request (known, unknown or missing
\* source) has these properties too, and with emergency = true it is stored
\* with source EMERGENCY and score 5 whatever the supplied source.
PriorityAndEmergencyOverride ==
  /\ \A i \in 1..Len(tokens) :
       /\ tokens[i].source \in tokenSources
       /\ tokens[i].priorityScore = FixedScore(tokens[i].source)
       /\ tokens[i].priorityScore # 0
  /\ \A doctorId \in 1..(MaxDoctors + 1), date \in Dates,
        source \in AnySources, emergency \in BOOLEAN :
       LET r == allocateToken(doctors, slots, tokens, doctorId, date,
                              source, emergency)
       IN r.ret = "token" =>
            LET t == r.tokens[Len(r.tokens)]
            IN /\ Len(r.tokens) = Len(tokens) + 1
               /\ t.id = r.tokenId
               /\ t.source \in tokenSources
               /\ t.source = (IF emergency THEN "EMERGENCY" ELSE source)
               /\ t.priorityScore = FixedScore(t.source)
               /\ t.priorityScore # 0

\* An emergency request and a plain request have both been stored.
PriorityAndEmergencyOverrideWitness ==
  /\ \E i \in 1..Len(tokens) :
       tokens[i].source = "EMERGENCY" /\ tokens[i].priorityScore = 5
  /\ \E i \in 1..Len(tokens) :
       tokens[i].source = "WALK_IN" /\ tokens[i].priorityScore = 1
  /\ last.op = "allocate" /\ last.emergency /\ last.ret = "token"

\* ------------------------------------------------------------------ C13
\* C13: allocate with emergency = false and a source outside the five known
\* values fails with "Invalid token source", also when the doctor id is
\* unknown; allocate with a valid effective source and an unknown doctor id
\* fails with "Doctor not found"; in both cases the slots and the tokens are
\* left as they were.
ValidationOrder ==
  \A doctorId \in 1..(MaxDoctors + 1), date \in Dates,
     source \in AnySources, emergency \in BOOLEAN :
    LET r == allocateToken(doctors, slots, tokens, doctorId, date,
                           source, emergency)
        known == \E i \in 1..Len(doctors) : doctors[i].id = doctorId
    IN /\ (~emergency /\ source \notin tokenSources) =>
            (r.ret = "Invalid token source" /\ r.slots = slots /\ r.tokens = tokens)
       /\ (ValidRequest(source, emergency) /\ ~known) =>
            (r.ret = "Doctor not found" /\ r.slots = slots /\ r.tokens = tokens)

\* A request with an unknown source and an unknown doctor id has been
\* answered while a doctor and tokens were stored.
ValidationOrderWitness ==
  /\ last.op = "allocate"
  /\ last.ret = "Invalid token source"
  /\ \A i \in 1..Len(doctors) : doctors[i].id # last.doctorId
  /\ Len(doctors) > 0
  /\ Len(tokens) > 0

\* ------------------------------------------------------------------ C14
\* The doctor of the scenario is the stored doctor, and nothing but plain
\* WALK_IN allocations has touched the tokens.
ScenarioDoctor ==
  /\ Len(doctors) = 1
  /\ doctors[1].startTime = 900
  /\ doctors[1].endTime = 930
  /\ doctors[1].slotDurationMinutes = 15
  /\ doctors[1].maxPatientsPerSlot = 1

ScenarioRun ==
  /\ ScenarioDoctor
  /\ \A i \in 1..Len(tokens) :
       tokens[i].source = "WALK_IN" /\ tokens[i].status = "SCHEDULED"

\* C14: for the doctor 09:00-09:30, 15 minutes, capacity 1, exactly the two
\* slots 09:00-09:15 and 09:15-09:30 are generated; the first WALK_IN
\* allocation takes the first slot and the second one the second slot; a
\* third WALK_IN allocation returns null and so does an emergency allocation
\* after it, which moves no token.
EndToEndScenario ==
  ScenarioRun =>
    \A date \in Dates :
      LET doctorId == doctors[1].id
          generated == generateSlotsForDayReturn(<<>>, doctors[1], date)
          wi == allocateToken(doctors, slots, tokens, doctorId, date,
                              "WALK_IN", FALSE)
          em == allocateToken(doctors, wi.slots, wi.tokens, doctorId, date,
                              "WALK_IN", TRUE)
          day == getSlotsForDoctorDay(wi.slots, doctorId, date)
      IN /\ Len(generated) = 2
         /\ generated[1].startTime = 900 /\ generated[1].endTime = 915
         /\ generated[2].startTime = 915 /\ generated[2].endTime = 930
         /\ Len(day) = 2
         /\ day[1].startTime = 900 /\ day[1].endTime = 915
         /\ day[2].startTime = 915 /\ day[2].endTime = 930
         /\ Len(tokens) <= 2
         /\ \A i \in 1..Len(tokens) : tokens[i].slotId = day[i].id
         /\ Len(tokens) < 2 =>
              /\ wi.ret = "token"
              /\ wi.tokens[Len(wi.tokens)].slotId = day[Len(tokens) + 1].id
         /\ Len(tokens) = 2 =>
              /\ wi.ret = "null"
              /\ wi.tokens = tokens
              /\ em.ret = "null"
              /\ em.tokens = tokens

\* The scenario has been played to its end: both slots hold a WALK_IN token
\* and the emergency request made then has been refused.
EndToEndScenarioWitness ==
  /\ ScenarioRun
  /\ Len(tokens) = 2
  /\ last.op = "allocate"
  /\ last.emergency
  /\ last.ret = "null"

\* ------------------------------------------------------------------ C15
\* The properties of one slot view of a schedule.
ViewIsProjection(tk, v) ==
  /\ \A j \in 1..Len(v.tokens) : v.tokens[j].status = "SCHEDULED"
  /\ {v.tokens[j].id : j \in 1..Len(v.tokens)} =
       {tk[t].id : t \in {u \in 1..Len(tk) : /\ tk[u].slotId = v.slotId
                                             /\ tk[u].status = "SCHEDULED"}}
  /\ v.booked = Len(v.tokens)
  /\ v.booked = Cardinality(Occupants(tk, v.slotId))
  /\ \A j \in 1..(Len(v.tokens) - 1) :
       v.tokens[j].priorityScore >= v.tokens[j + 1].priorityScore

ViewsChronological(views) ==
  \A i \in 1..(Len(views) - 1) : views[i].startTime <= views[i + 1].startTime

\* C15: a schedule call changes no doctor, slot or token and generates no
\* slot (the schedule of a day without slots is empty); every slot view
\* lists only SCHEDULED tokens, its booked count is the number of those
\* tokens and is at most the view's capacity, the tokens are in
\* non-increasing priorityScore order and the views in chronological order.
ScheduleIsPureProjection ==
  [][(last'.op = "schedule" /\ last'.ret = "200") =>
       LET views == getSchedule(slots', tokens', last'.doctorId, last'.date)
       IN /\ doctors' = doctors /\ slots' = slots /\ tokens' = tokens
          /\ DaySlots(slots, last'.doctorId, last'.date) = {} => views = <<>>
          /\ Len(views) = Cardinality(DaySlots(slots, last'.doctorId, last'.date))
          /\ ViewsChronological(views)
          /\ \A i \in 1..Len(views) :
               /\ ViewIsProjection(tokens, views[i])
               /\ views[i].booked <= views[i].capacity]_vars

\* The same statement without the bound of booked by the capacity.
ScheduleIsPureProjectionButCapacity ==
  [][(last'.op = "schedule" /\ last'.ret = "200") =>
       LET views == getSchedule(slots', tokens', last'.doctorId, last'.date)
       IN /\ doctors' = doctors /\ slots' = slots /\ tokens' = tokens
          /\ DaySlots(slots, last'.doctorId, last'.date) = {} => views = <<>>
          /\ Len(views) = Cardinality(DaySlots(slots, last'.doctorId, last'.date))
          /\ ViewsChronological(views)
          /\ \A i \in 1..Len(views) :
               /\ ViewIsProjection(tokens, views[i])
               /\ (\A k \in 1..Len(doctors) : doctors[k].maxPatientsPerSlot >= 0)
                    => views[i].booked <= views[i].capacity]_vars

\* ------------------------------------------------------------------ C16
\* Number of SCHEDULED tokens of a doctor and date.
ScheduledCount(tk, doctorId, date) ==
  Cardinality({i \in 1..Len(tk) : /\ tk[i].doctorId = doctorId
                                  /\ tk[i].date = date
                                  /\ tk[i].status = "SCHEDULED"})

\* C16: a successful cancel or markNoShow changes the slotId of at most one
\* other token; that token was SCHEDULED in a strictly later slot of the same
\* doctor and date and ends in the slot of the cancelled token; every other
\* token keeps its slotId and status, and the number of SCHEDULED tokens of
\* that doctor and date decreases by exactly one.
SingleStepRebalance ==
  [][(last'.op \in {"cancel", "noShow"} /\ last'.ret = "token") =>
       LET k == TokenOf(tokens, last'.id)
           s == SlotOf(slots, tokens[k].slotId)
           changed == {i \in 1..Len(tokens) : tokens'[i].slotId # tokens[i].slotId}
       IN /\ Len(tokens') = Len(tokens)
          /\ slots' = slots
          /\ k \notin changed
          /\ Cardinality(changed) <= 1
          /\ \A i \in changed :
               /\ tokens[i].status = "SCHEDULED"
               /\ SlotOf(slots, tokens[i].slotId) \in LaterSlots(slots, s)
               /\ tokens[i].doctorId = tokens[k].doctorId
               /\ tokens[i].date = tokens[k].date
               /\ tokens'[i].slotId = tokens[k].slotId
          /\ \A i \in 1..Len(tokens) :
               /\ i # k => tokens'[i].status = tokens[i].status
               /\ [tokens'[i] EXCEPT !.slotId = 0, !.status = ""] =
                    [tokens[i] EXCEPT !.slotId = 0, !.status = ""]
          /\ ScheduledCount(tokens', tokens[k].doctorId, tokens[k].date) =
               ScheduledCount(tokens, tokens[k].doctorId, tokens[k].date) - 1]_vars

\* A cancel has pulled one token forward and stopped there: the slot the
\* token left stays empty although a slot after it holds a SCHEDULED token.
SingleStepRebalanceWitness ==
  /\ last.op = "cancel"
  /\ last.ret = "token"
  /\ last.moved # 0
  /\ LET s == SlotOf(slots, tokens[TokenOf(tokens, last.id)].slotId)
     IN \E j \in LaterSlots(slots, s), j2 \in LaterSlots(slots, s) :
          /\ slots[j].startTime < slots[j2].startTime
          /\ Occupants(tokens, slots[j].id) = {}
          /\ Occupants(tokens, slots[j2].id) # {}

\* ------------------------------------------------------------------ C17
TerminalStatuses == {"CANCELLED", "NO_SHOW"}

\* C17: every token is created with status SCHEDULED, and only by allocate;
\* a status changes only from SCHEDULED, to CANCELLED by cancel or to NO_SHOW
\* by markNoShow, and only for the token the call names; a token that is
\* CANCELLED or NO_SHOW never changes again, neither status nor slotId.
StatusLifecycle ==
  [][/\ Len(tokens') >= Len(tokens)
     /\ Len(tokens') > Len(tokens) => last'.op = "allocate"
     /\ \A i \in (Len(tokens) + 1)..Len(tokens') : tokens'[i].status = "SCHEDULED"
     /\ \A i \in 1..Len(tokens) :
          /\ tokens'[i].id = tokens[i].id
          /\ tokens'[i].status # tokens[i].status =>
               /\ tokens[i].status = "SCHEDULED"
               /\ last'.id = tokens[i].id
               /\ \/ last'.op = "cancel" /\ tokens'[i].status = "CANCELLED"
                  \/ last'.op = "noShow" /\ tokens'[i].status = "NO_SHOW"
          /\ tokens[i].status \in TerminalStatuses => tokens'[i] = tokens[i]]_vars

\* Tokens of both terminal statuses are stored, one of them in a slot after
\* the slot that a cancel has just freed and refilled, and a SCHEDULED token
\* shares the day with them.
StatusLifecycleWitness ==
  /\ \E i \in 1..Len(tokens) : tokens[i].status = "CANCELLED"
  /\ \E i \in 1..Len(tokens) : tokens[i].status = "NO_SHOW"
  /\ last.op = "cancel"
  /\ last.moved # 0
  /\ \E i \in 1..Len(tokens) :
       /\ tokens[i].status \in TerminalStatuses
       /\ SlotOf(slots, tokens[i].slotId)
            \in LaterSlots(slots, SlotOf(slots, tokens[TokenOf(tokens, last.id)].slotId))

\* ------------------------------------------------------------------ C18
\* C18: allocate, cancel, markNoShow (with the rebalancing they do) and
\* schedule never remove or alter a stored slot, and never add a slot to a
\* (doctor, date) that already has slots; cancel, markNoShow and schedule
\* leave the slot store as it is.
SlotSetStability ==
  [][last'.op \in {"allocate", "cancel", "noShow", "schedule"} =>
       /\ Len(slots') >= Len(slots)
       /\ \A i \in 1..Len(slots) : slots'[i] = slots[i]
       /\ \A i \in (Len(slots) + 1)..Len(slots') :
            DaySlots(slots, slots'[i].doctorId, slots'[i].date) = {}
       /\ last'.op # "allocate" => slots' = slots]_vars

\* An allocation has stored a token on a day whose slots were generated by
\* an earlier request and which has seen a cancellation since.
SlotSetStabilityWitness ==
  /\ last.op = "allocate"
  /\ last.ret = "token"
  /\ last.id >= 3
  /\ DaySlots(slots, last.doctorId, last.date) # {}
  /\ \E i \in 1..Len(tokens) : tokens[i].status = "CANCELLED"

\* ------------------------------------------------------------------ C19
\* The shape of the slots of one day of a doctor, read off the stored
\* startTime and endTime of the slots.
DayShape(doctor, day) ==
  /\ \A i \in 1..(Len(day) - 1) : day[i].startTime < day[i + 1].startTime
  /\ Len(day) > 0 => day[1].startTime = doctor.startTime
  /\ \A i \in 1..Len(day) :
       ParseTime(day[i].endTime) - ParseTime(day[i].startTime)
         = doctor.slotDurationMinutes
  /\ \A i \in 1..(Len(day) - 1) : day[i + 1].startTime = day[i].endTime
  /\ \A i \in 1..Len(day) : day[i].capacity = doctor.maxPatientsPerSlot

\* C19: for every doctor with startTime < endTime and slotDurationMinutes >
\* 0, the generated slots of a day are strictly ordered by start time, the
\* first starts at the doctor's startTime, every slot is slotDurationMinutes
\* long, each next slot starts where the previous one ends, and every slot
\* has the doctor's maxPatientsPerSlot as capacity.
SlotSequenceShape ==
  \A d \in 1..Len(doctors), date \in GenDates :
    (/\ ParseTime(doctors[d].startTime) < ParseTime(doctors[d].endTime)
     /\ doctors[d].slotDurationMinutes > 0) =>
      DayShape(doctors[d], getSlotsForDoctorDay(slots, doctors[d].id, date))

\* The same statement for the doctors whose slotDurationMinutes divides the
\* working hours, so that no slot runs past endTime.
SlotSequenceShapeWithinHours ==
  \A d \in 1..Len(doctors), date \in GenDates :
    (/\ ParseTime(doctors[d].startTime) < ParseTime(doctors[d].endTime)
     /\ doctors[d].slotDurationMinutes > 0
     /\ (ParseTime(doctors[d].endTime) - ParseTime(doctors[d].startTime))
          % doctors[d].slotDurationMinutes = 0) =>
      /\ DayShape(doctors[d], getSlotsForDoctorDay(slots, doctors[d].id, date))
      /\ DayShape(doctors[d], generateSlotsForDayReturn(slots, doctors[d], date))
      /\ Len(generateSlotsForDayReturn(slots, doctors[d], date)) > 0

\* ------------------------------------------------------------------ C20
\* Tokens (indices) whose slotId differs between two token stores.
Displaced(before, after) ==
  {i \in 1..Len(before) : after[i].slotId # before[i].slotId}

\* C20: no allocate call changes the slotId of an existing token whose
\* priorityScore is at least the score of the request; an emergency request
\* moves no EMERGENCY token and a non-emergency request moves no token at
\* all.  The emergency path itself, entered on any reachable store with a
\* request of any score of the table, displaces no token of at least that
\* score.
DisplacementRefusal ==
  /\ \A doctorId \in 1..(MaxDoctors + 1), date \in Dates,
        source \in RequestSources, emergency \in BOOLEAN :
       LET r == allocateToken(doctors, slots, tokens, doctorId, date,
                              source, emergency)
           score == getPriorityScore(IF emergency THEN "EMERGENCY" ELSE source)
       IN /\ \A i \in Displaced(tokens, r.tokens) :
               /\ tokens[i].priorityScore < score
               /\ tokens[i].source # "EMERGENCY"
          /\ ~emergency => Displaced(tokens, r.tokens) = {}
  /\ \A d \in 1..Len(doctors), date \in Dates,
        score \in {priorities[src] : src \in tokenSources} :
       LET sorted == getSlotsForDoctorDay(slots, doctors[d].id, date)
           r == EmergencyPass(1, sorted, tokens, score)
       IN \A i \in Displaced(tokens, r.tokens) :
            tokens[i].priorityScore < score

\* An emergency request has been refused on a day that holds a SCHEDULED
\* EMERGENCY token and, in an earlier slot, a SCHEDULED token of lower
\* priority.
DisplacementRefusalWitness ==
  /\ last.op = "allocate"
  /\ last.emergency
  /\ last.ret = "null"
  /\ \E i \in 1..Len(tokens), j \in 1..Len(tokens) :
       /\ tokens[i].status = "SCHEDULED" /\ tokens[i].source = "EMERGENCY"
       /\ tokens[j].status = "SCHEDULED" /\ tokens[j].source = "WALK_IN"
       /\ SlotOf(slots, tokens[i].slotId)
            \in LaterSlots(slots, SlotOf(slots, tokens[j].slotId))

\* ------------------------------------------------------------------ C21
\* C21: every stored doctor has slotDurationMinutes > 0 and
\* maxPatientsPerSlot > 0, and every generated slot has capacity > 0.
StoredDoctorsAreValid ==
  /\ \A d \in 1..Len(doctors) :
       /\ doctors[d].slotDurationMinutes > 0
       /\ doctors[d].maxPatientsPerSlot > 0
  /\ \A i \in 1..Len(slots) : slots[i].capacity > 0

\* ------------------------------------------------------------------ C22
\* C22: every call of allocate (with the slot generation it triggers),
\* cancel, markNoShow and schedule made for a stored doctor returns: no call
\* is left running for ever.
EveryCallReturns ==
  /\ ~hung
  /\ last.ret # "diverges"

\* ------------------------------------------------------------------ C23
\* C23: the allocate route answers 400 without calling the core when
\* doctorId, date or patientName is missing; otherwise it answers 409
\* exactly when the core returns null, 400 when the core throws "Invalid
\* token source" or "Doctor not found", and 201 exactly when the core
\* returns a token.  The cancel and no-show routes answer 404 exactly when
\* the core returns null.  db.write() is called only after a call that
\* returned a token, and a request answered 400, 404 or 409 changes no token.
HostOutcomeMapping ==
  [][/\ (last'.op = "allocate" /\ last'.status # "") =>
          LET missing == \/ last'.doctorId = 0
                         \/ last'.date = ""
                         \/ last'.patientName = ""
              core == allocateToken(doctors, slots, tokens, last'.doctorId,
                                    last'.date, last'.source, last'.emergency)
          IN /\ last'.status \in {"201", "400", "409"}
             /\ missing => /\ last'.status = "400"
                           /\ slots' = slots /\ tokens' = tokens
             /\ ~missing =>
                  /\ last'.status = "409" <=> core.ret = "null"
                  /\ last'.status = "201" <=> core.ret = "token"
                  /\ last'.status = "400" <=>
                       core.ret \in {"Invalid token source", "Doctor not found"}
                  /\ last'.status = "201" =>
                       /\ tokens' = core.tokens
                       /\ tokens'[Len(tokens')].id = last'.id
             /\ last'.written <=> last'.status = "201"
             /\ last'.status # "201" => tokens' = tokens
     /\ last'.op \in {"cancel", "noShow"} =>
          LET core == IF last'.op = "cancel"
                      THEN cancelToken(slots, tokens, last'.id)
                      ELSE markNoShow(slots, tokens, last'.id)
          IN /\ last'.status \in {"200", "404"}
             /\ last'.status = "404" <=> core.ret = "null"
             /\ last'.written <=> last'.status = "200"
             /\ last'.status = "404" => tokens' = tokens
             /\ last'.status = "200" => tokens' = core.tokens]_vars

\* A request with all its fields has been answered 409 on a day whose
\* slots are all full, and nothing was written.
HostOutcomeMappingWitness ==
  /\ last.op = "allocate"
  /\ last.status = "409"
  /\ ~last.written
  /\ last.patientName # ""
  /\ DaySlots(slots, last.doctorId, last.date) # {}
  /\ \A i \in DaySlots(slots, last.doctorId, last.date) :
       Cardinality(Occupants(tokens, slots[i].id)) = slots[i].capacity
  /\ Len(tokens) >= 2

\* ------------------------------------------------------------------ C24
\* C24: in every reachable state the slotId of every token is the id of a
\* stored slot whose doctorId and date are the token's doctorId and date.
TokenReferentialIntegrity ==
  \A t \in 1..Len(tokens) :
    \E i \in 1..Len(slots) :
      /\ slots[i].id = tokens[t].slotId
      /\ slots[i].doctorId = tokens[t].doctorId
      /\ slots[i].date = tokens[t].date

\* Tokens of both doctors and both dates are stored and a rebalance has just
\* moved one of them.
TokenReferentialIntegrityWitness ==
  /\ last.op \in {"cancel", "noShow"}
  /\ last.moved # 0
  /\ \E t \in 1..Len(tokens), u \in 1..Len(tokens) :
       tokens[t].doctorId # tokens[u].doctorId \/ tokens[t].date # tokens[u].date

\* ------------------------------------------------------------------ C25
\* The slots and the tokens (by index) that do not belong to a doctor and
\* date.
ForeignSlots(sl, doctorId, date) ==
  {i \in 1..Len(sl) : sl[i].doctorId # doctorId \/ sl[i].date # date}

ForeignTokens(tk, doctorId, date) ==
  {i \in 1..Len(tk) : tk[i].doctorId # doctorId \/ tk[i].date # date}

\* C25: an allocate for a (doctor, date), or a cancel or markNoShow of a
\* token of a (doctor, date), changes, adds and removes no slot and no token
\* of another doctor or another date.
DayIsolation ==
  [][(\/ last'.op = "allocate"
      \/ last'.op \in {"cancel", "noShow"} /\ last'.ret = "token") =>
       LET doctorId == IF last'.op = "allocate" THEN last'.doctorId
                       ELSE tokens[TokenOf(tokens, last'.id)].doctorId
           date == IF last'.op = "allocate" THEN last'.date
                   ELSE tokens[TokenOf(tokens, last'.id)].date
       IN /\ Len(slots') >= Len(slots) /\ Len(tokens') >= Len(tokens)
          /\ ForeignSlots(slots', doctorId, date) = ForeignSlots(slots, doctorId, date)
          /\ ForeignTokens(tokens', doctorId, date) = ForeignTokens(tokens, doctorId, date)
          /\ \A i \in ForeignSlots(slots, doctorId, date) : slots'[i] = slots[i]
          /\ \A i \in ForeignTokens(tokens, doctorId, date) : tokens'[i] = tokens[i]]_vars

\* A token has been cancelled whose day holds no token in a later slot,
\* while another day holds a SCHEDULED token in a slot that starts later:
\* that token has stayed where it was.
DayIsolationWitness ==
  /\ last.op = "cancel"
  /\ last.ret = "token"
  /\ last.moved = 0
  /\ LET k == TokenOf(tokens, last.id)
     IN \E u \in 1..Len(tokens) :
          /\ tokens[u].status = "SCHEDULED"
          /\ tokens[u].doctorId # tokens[k].doctorId \/ tokens[u].date # tokens[k].date
          /\ slots[SlotOf(slots, tokens[u].slotId)].startTime >
               slots[SlotOf(slots, tokens[k].slotId)].startTime

\* ------------------------------------------------------------------ C26
\* No cancel and no markNoShow has succeeded: every stored token is still
\* SCHEDULED (a cancelled or no-show token stays in the store).
AllocationOnly == \A t \in 1..Len(tokens) : tokens[t].status = "SCHEDULED"

\* C26: in every state reached by allocate calls alone, if a slot holds a
\* SCHEDULED token then every earlier slot of the same doctor and date holds
\* as many SCHEDULED tokens as its capacity.
PrefixPacking ==
  AllocationOnly =>
    \A i \in 1..Len(slots) :
      Occupants(tokens, slots[i].id) # {} =>
        \A j \in DaySlots(slots, slots[i].doctorId, slots[i].date) :
          slots[j].startTime < slots[i].startTime =>
            Cardinality(Occupants(tokens, slots[j].id)) = slots[j].capacity

\* Allocations alone have reached the third slot of a day: the token just
\* stored sits behind two earlier slots.
PrefixPackingWitness ==
  /\ AllocationOnly
  /\ last.op = "allocate"
  /\ last.ret = "token"
  /\ \E i \in 1..Len(slots) :
       /\ slots[i].id = tokens[last.id].slotId
       /\ Cardinality({j \in DaySlots(slots, slots[i].doctorId, slots[i].date) :
                         slots[j].startTime < slots[i].startTime}) = 2

====
